---- MODULE Spec2Model ----
(***************************************************************************)
(* Model of the trenino desktop shell (src/tauri/src-tauri/src/lib.rs):    *)
(* setup spawns the backend sidecar and stores its handle, a background    *)
(* thread polls the health endpoint (wait_for_backend) and then either     *)
(* opens the main window or exits the process with status 1, and the       *)
(* event-loop callback handles ExitRequested by asking the backend to shut *)
(* down and falling back to killing the child.                             *)
(*                                                                         *)
(* Threads: "main" (setup, then the event loop and its callback) and the   *)
(* readiness thread.  Steps are split at the blocking calls (HTTP request, *)
(* sleep); everything between two blocking calls is one action.            *)
(*                                                                         *)
(* The keystroke tool (src/tauri/keystroke/src/main.rs) is a separate      *)
(* program: KeySpec runs it on a bounded set of command lines while the    *)
(* shell's variables keep their initial values, and Spec runs the shell    *)
(* while the tool's variables stay idle.                                   *)
(***************************************************************************)
EXTENDS Integers, Sequences, FiniteSets, TLC

\* lib.rs:8
MAX_RETRIES == 120

\* Number of ExitRequested events the environment may deliver in one run.
MaxExitEvents == 2

\* Largest number of '+'-separated parts of the keystroke tool's key argument.
MaxParts == 3

\* exitCode values: the process is still running, or it ended with a status.
NotExited == -1
ExitOk == 0
ExitFailure == 1
ExitPanic == 101

\* Outcomes of one HTTP request, as the code distinguishes them:
\* Ok(response) with a success status, Ok(response) with another status,
\* Err(_) (connection refused, timeout).
HttpOutcomes == {"OkSuccess", "OkNonSuccess", "ErrRefused", "ErrTimeout"}

\* Result of CommandChild::kill, discarded by `let _ =`.
KillResults == {"Ok", "Err"}

FailedMessage == "Failed to start. Please restart the app."

VARIABLES
    mainPc,            \* position of the main thread
    exitCode,          \* NotExited, or the status the process ended with
    setupError,        \* which step of setup failed, "none" if none
    slot,              \* BackendProcess(Mutex<Option<CommandChild>>): "None" / "Some"
    slotWrites,        \* number of assignments of Some(child) to the slot
    spawns,            \* number of successful sidecar spawns
    spawnAttempts,     \* number of calls of spawn() on the sidecar command
    childState,        \* "none" (never spawned), "alive", "exited"
    splash,            \* splash window: "none", "open", "closed"
    splashText,        \* text of the splash window's status element
    mainWindow,        \* main window: "none", "shown"
    uiLog,             \* window operations issued by the program, in order
    pollPc,            \* position of the readiness thread
    splash_window,     \* wait_for_backend's local: TRUE iff Some(window)
    attempt,           \* wait_for_backend's loop variable
    probes,            \* number of check_backend_ready calls
    sleeps,            \* number of RETRY_DELAY_MS sleeps
    lastProbe,         \* HTTP outcome of the latest probe, "none" before
    firstHealthy,      \* index of the first probe that returned Ok(true), 0 if none
    statusLog,         \* texts passed to eval on the splash window, in order
    exitEvents,        \* ExitRequested events handled or being handled
    shutdownRequests,  \* POST /api/shutdown requests sent
    shutdown_succeeded,\* the handler's local flag
    hResp,             \* response to the current handler's request
    hKills,            \* kill calls made by the current handler invocation
    hGrace,            \* grace sleeps made by the current handler invocation
    kills,             \* kill calls over the whole run
    lastKill,          \* result of the latest kill call, "none" before
    killedState,       \* childState when kill was last called, "none" before
    keyPc,             \* keystroke tool: "idle", "start", "parsed", "done"
    action,            \* keystroke tool: cli.action
    parts,             \* keystroke tool: cli.key split at '+'
    modifiers,         \* keystroke tool: modifiers parsed from parts
    main_key,          \* keystroke tool: main key parsed from parts, "None" if none
    keyEvents          \* keystroke tool: calls of enigo.key, in order

vars == <<mainPc, exitCode, setupError, slot, slotWrites, spawns, spawnAttempts, childState,
          splash, splashText, mainWindow, uiLog, pollPc, splash_window,
          attempt, probes, sleeps, lastProbe, statusLog, exitEvents,
          shutdownRequests, shutdown_succeeded, hResp, hKills, hGrace,
          kills, lastKill, firstHealthy, killedState,
          keyPc, action, parts, modifiers, main_key, keyEvents>>

keyVars == <<keyPc, action, parts, modifiers, main_key, keyEvents>>

mainVars == <<mainPc, setupError, slot, slotWrites, spawns, spawnAttempts, exitEvents,
              shutdownRequests, shutdown_succeeded, hResp, hKills, hGrace,
              kills, lastKill, killedState>>

pollVars == <<pollPc, splash_window, attempt, probes, sleeps, lastProbe,
              firstHealthy, statusLog>>

uiVars == <<splash, splashText, mainWindow, uiLog>>

Running == exitCode = NotExited

----------------------------------------------------------------------------
(* Pure functions *)

\* Variant: a request error is returned as Err instead of Ok(false).
check_backend_ready_PropagatesErr(http) ==
    IF http = "OkSuccess" THEN "OkTrue"
    ELSE IF http = "OkNonSuccess" THEN "OkFalse"
    ELSE "Err"

\* check_backend_ready: a success status is Ok(true), everything else Ok(false).
check_backend_ready(http) ==
    IF http = "OkSuccess" THEN "OkTrue" ELSE "OkFalse"

\* Variant: the thresholds are compared with <=.
StatusFor_Inclusive(a) ==
    IF a <= 10 THEN "Starting server..."
    ELSE IF a <= 30 THEN "Running database migrations..."
    ELSE "Almost ready..."

\* Status text chosen for a failed attempt (lib.rs:47-53).
StatusFor(a) ==
    IF a < 10 THEN "Starting server..."
    ELSE IF a < 30 THEN "Running database migrations..."
    ELSE "Almost ready..."

\* Texts pushed by a failed attempt: one eval if the splash window was found
\* when wait_for_backend started, none otherwise.
StatusUpdates(found, a) ==
    IF found THEN <<StatusFor(a)>> ELSE <<>>

\* Variant: the status update is made before the match, on every attempt.
PushedBy_EveryAttempt(res, found, a) == StatusUpdates(found, a)

\* Texts pushed by the match arm taken for a probe result (lib.rs:40-62):
\* only the Ok(false) arm updates the splash window.
PushedBy(res, found, a) ==
    IF res = "OkFalse" THEN StatusUpdates(found, a) ELSE <<>>

\* Variant: the Ok(true) arm does not return.
AfterProbe_NoReturn(res) == "sleep"

\* Position after a probe result: Ok(true) returns true, anything else
\* falls through to the sleep at the end of the loop body.
AfterProbe(res) ==
    IF res = "OkTrue" THEN "returned_true" ELSE "sleep"

\* Variant: an exclusive range, 1..MAX_RETRIES.
LoopContinues_Exclusive(a) == a + 1 < MAX_RETRIES

\* for attempt in 1..=MAX_RETRIES: is there another iteration after `a`?
LoopContinues(a) == a < MAX_RETRIES

\* Variant: the range is stepped by two.
NextAttempt_StepTwo(a) == a + 2

\* The loop variable of the next iteration.
NextAttempt(a) == a + 1

\* Variant: a failed eval ends the poll with `false`.
AfterEval_Propagate(pc, evalOk) == IF evalOk THEN pc ELSE "returned_false"

\* `let _ = window.eval(..)` (lib.rs:54-57): the result of eval is discarded,
\* the position after it does not depend on it.
AfterEval(pc, evalOk) == pc

\* eval on a window: the text changes only if the window still exists.
EvalText(win, old, new) == IF win = "open" THEN new ELSE old

\* The handler's shutdown_succeeded flag for a response to the POST.
ShutdownSucceeded(r) == r = "OkSuccess"

\* app_handle.try_state::<BackendProcess>(): the state is managed by the
\* builder (lib.rs:76) before the event loop exists.
TryStateIsSome == TRUE

\* backend_state.0.lock(): the only other critical section (lib.rs:121) is a
\* plain assignment that cannot panic, so the mutex is never poisoned.
LockIsOk == TRUE

\* Exit status caused by the result of kill: `let _ =` discards it.
KillResultExit(kr) == NotExited

\* Variant: the branches of the handler are swapped.
HandlerBranch_Swapped(succeeded) == IF succeeded THEN "fallback" ELSE "grace"

\* lib.rs:192-201: the grace sleep if the shutdown request succeeded, the
\* fallback to killing the child otherwise.
HandlerBranch(succeeded) == IF succeeded THEN "grace" ELSE "fallback"

\* Variant: the handle is borrowed from the slot instead of taken.
SlotAfterTake_Borrow(s) == s

\* Option::take leaves None in the slot.
SlotAfterTake(s) == "None"

----------------------------------------------------------------------------
ShellInit ==
    /\ mainPc = "setup_splash"
    /\ exitCode = NotExited
    /\ setupError = "none"
    /\ slot = "None"
    /\ slotWrites = 0
    /\ spawns = 0
    /\ spawnAttempts = 0
    /\ childState = "none"
    /\ splash = "none"
    /\ splashText = ""
    /\ mainWindow = "none"
    /\ uiLog = <<>>
    /\ pollPc = "idle"
    /\ splash_window = FALSE
    /\ attempt = 0
    /\ probes = 0
    /\ sleeps = 0
    /\ lastProbe = "none"
    /\ statusLog = <<>>
    /\ exitEvents = 0
    /\ shutdownRequests = 0
    /\ shutdown_succeeded = FALSE
    /\ hResp = "none"
    /\ hKills = 0
    /\ hGrace = 0
    /\ kills = 0
    /\ lastKill = "none"
    /\ firstHealthy = 0
    /\ killedState = "none"

\* The keystroke tool is not running.
KeyIdle ==
    /\ keyPc = "idle"
    /\ action = "none"
    /\ parts = <<>>
    /\ modifiers = <<>>
    /\ main_key = "None"
    /\ keyEvents = <<>>

Init == ShellInit /\ KeyIdle

----------------------------------------------------------------------------
(* setup (main thread), lib.rs:77-157 *)

\* Variant: the error is logged and setup goes on to start the readiness
\* thread.
SetupFails_Continue(step) ==
    /\ setupError' = step
    /\ mainPc' = "setup_thread"
    /\ exitCode' = NotExited

\* Variant: the failed step is tried again.
SetupFails_Retry(step) ==
    /\ setupError' = step
    /\ UNCHANGED mainPc
    /\ exitCode' = NotExited

\* A failed setup step: the closure panics or returns Err, which ends the
\* process with a non-zero status.
SetupFails(step) ==
    /\ setupError' = step
    /\ mainPc' = "stopped"
    /\ exitCode' = ExitPanic

\* lib.rs:81-95: build the splash window, expect() on failure.
SetupSplash ==
    /\ Running /\ mainPc = "setup_splash"
    /\ UNCHANGED keyVars
    /\ \E ok \in BOOLEAN :
         IF ok
         THEN /\ splash' = "open"
              /\ uiLog' = Append(uiLog, "create_splash")
              /\ mainPc' = "setup_sidecar"
              /\ UNCHANGED <<setupError, exitCode>>
         ELSE /\ SetupFails("splash")
              /\ UNCHANGED <<splash, uiLog>>
    /\ UNCHANGED <<slot, slotWrites, spawns, spawnAttempts, childState, splashText, mainWindow,
                   exitEvents, shutdownRequests, shutdown_succeeded, hResp,
                   hKills, hGrace, kills, lastKill, killedState>>
    /\ UNCHANGED pollVars

\* lib.rs:98-104: create the sidecar command.
SetupSidecar ==
    /\ Running /\ mainPc = "setup_sidecar"
    /\ UNCHANGED keyVars
    /\ \E ok \in BOOLEAN :
         IF ok
         THEN /\ mainPc' = "setup_spawn"
              /\ UNCHANGED <<setupError, exitCode>>
         ELSE SetupFails("sidecar")
    /\ UNCHANGED <<slot, slotWrites, spawns, spawnAttempts, childState, exitEvents,
                   shutdownRequests, shutdown_succeeded, hResp, hKills, hGrace,
                   kills, lastKill, killedState>>
    /\ UNCHANGED uiVars
    /\ UNCHANGED pollVars

\* lib.rs:106-117: spawn the sidecar.
SetupSpawn ==
    /\ Running /\ mainPc = "setup_spawn"
    /\ UNCHANGED keyVars
    /\ spawnAttempts' = spawnAttempts + 1
    /\ \E ok \in BOOLEAN :
         IF ok
         THEN /\ spawns' = spawns + 1
              /\ childState' = "alive"
              /\ mainPc' = "setup_store"
              /\ UNCHANGED <<setupError, exitCode>>
         ELSE /\ SetupFails("spawn")
              /\ UNCHANGED <<spawns, childState>>
    /\ UNCHANGED <<slot, slotWrites, exitEvents, shutdownRequests,
                   shutdown_succeeded, hResp, hKills, hGrace, kills, lastKill, killedState>>
    /\ UNCHANGED uiVars
    /\ UNCHANGED pollVars

\* Variant: the child handle is dropped instead of stored.
SetupStore_Drops ==
    /\ Running /\ mainPc = "setup_store"
    /\ UNCHANGED keyVars
    /\ mainPc' = "setup_thread"
    /\ UNCHANGED <<exitCode, setupError, slot, slotWrites, spawns, spawnAttempts,
                   childState, exitEvents, shutdownRequests, shutdown_succeeded,
                   hResp, hKills, hGrace, kills, lastKill, killedState>>
    /\ UNCHANGED uiVars
    /\ UNCHANGED pollVars

\* lib.rs:119-121: store the child handle in the managed state.
SetupStore ==
    /\ Running /\ mainPc = "setup_store"
    /\ UNCHANGED keyVars
    /\ slot' = "Some"
    /\ slotWrites' = slotWrites + 1
    /\ mainPc' = "setup_thread"
    /\ UNCHANGED <<exitCode, setupError, spawns, spawnAttempts, childState, exitEvents,
                   shutdownRequests, shutdown_succeeded, hResp, hKills, hGrace,
                   kills, lastKill, killedState>>
    /\ UNCHANGED uiVars
    /\ UNCHANGED pollVars

\* lib.rs:124-156: start the readiness thread and return Ok(()); the event
\* loop runs from here on.
SetupThread ==
    /\ Running /\ mainPc = "setup_thread"
    /\ UNCHANGED keyVars
    /\ pollPc = "idle"
    /\ pollPc' = "spawned"
    /\ mainPc' = "eventloop"
    /\ UNCHANGED <<exitCode, setupError, slot, slotWrites, spawns, spawnAttempts, childState,
                   exitEvents, shutdownRequests, shutdown_succeeded, hResp,
                   hKills, hGrace, kills, lastKill, killedState>>
    /\ UNCHANGED uiVars
    /\ UNCHANGED <<splash_window, attempt, probes, sleeps, lastProbe, firstHealthy,
                   statusLog>>

----------------------------------------------------------------------------
(* readiness thread: wait_for_backend, lib.rs:34-69, and its caller,       *)
(* lib.rs:125-154                                                          *)

\* lib.rs:36: look the splash window up once; the loop starts at attempt 1.
PollBegin ==
    /\ Running /\ pollPc = "spawned"
    /\ UNCHANGED keyVars
    /\ splash_window' = (splash = "open")
    /\ attempt' = 1
    /\ pollPc' = "probe"
    /\ UNCHANGED <<probes, sleeps, lastProbe, firstHealthy, statusLog>>
    /\ UNCHANGED <<exitCode, childState>>
    /\ UNCHANGED mainVars
    /\ UNCHANGED uiVars

\* lib.rs:39-63: one probe and the match on its result.
Probe(http) ==
    /\ Running /\ pollPc = "probe"
    /\ UNCHANGED keyVars
    /\ probes' = probes + 1
    /\ lastProbe' = http
    /\ LET res == check_backend_ready(http)
           pushed == PushedBy(res, splash_window, attempt)
       IN  /\ pollPc' = AfterEval(AfterProbe(res),
                               pushed = <<>> \/ splash = "open")
           /\ firstHealthy' = IF res = "OkTrue" /\ firstHealthy = 0
                              THEN probes + 1 ELSE firstHealthy
           /\ statusLog' = statusLog \o pushed
           /\ splashText' = IF pushed # <<>>
                            THEN EvalText(splash, splashText, pushed[1])
                            ELSE splashText
    /\ UNCHANGED <<splash_window, attempt, sleeps>>
    /\ UNCHANGED <<exitCode, childState, splash, mainWindow, uiLog>>
    /\ UNCHANGED mainVars

PollProbe == \E http \in HttpOutcomes : Probe(http)

\* lib.rs:65-68: the sleep that ends an iteration, then the next attempt or
\* `false` when the range is exhausted.
PollSleep ==
    /\ Running /\ pollPc = "sleep"
    /\ UNCHANGED keyVars
    /\ sleeps' = sleeps + 1
    /\ IF LoopContinues(attempt)
       THEN /\ attempt' = NextAttempt(attempt)
            /\ pollPc' = "probe"
       ELSE /\ pollPc' = "returned_false"
            /\ UNCHANGED attempt
    /\ UNCHANGED <<splash_window, probes, lastProbe, firstHealthy, statusLog>>
    /\ UNCHANGED <<exitCode, childState>>
    /\ UNCHANGED mainVars
    /\ UNCHANGED uiVars

\* Variant: the splash is closed before the main window is built.
ReadyUiOps_CloseFirst == <<"close_splash", "create_main", "show_main">>

\* Window operations of the ready branch, in program order (lib.rs:130-143).
ReadyUiOps == <<"create_main", "close_splash", "show_main">>

\* lib.rs:126-143: wait_for_backend returned true: build the main window
\* (expect() panics the thread on failure), close the splash, show main.
OnReady ==
    /\ Running /\ pollPc = "returned_true"
    /\ UNCHANGED keyVars
    /\ \E ok \in BOOLEAN :
         IF ok
         THEN /\ mainWindow' = "shown"
              /\ splash' = "closed"
              /\ uiLog' = uiLog \o ReadyUiOps
              /\ pollPc' = "running"
         ELSE /\ pollPc' = "panicked"
              /\ UNCHANGED <<mainWindow, splash, uiLog>>
    /\ UNCHANGED <<splash_window, attempt, probes, sleeps, lastProbe, firstHealthy,
                   statusLog>>
    /\ UNCHANGED <<exitCode, childState, splashText>>
    /\ UNCHANGED mainVars

\* lib.rs:145-150: wait_for_backend returned false: show the error text.
OnTimeoutShowError ==
    /\ Running /\ pollPc = "returned_false"
    /\ UNCHANGED keyVars
    /\ statusLog' = Append(statusLog, FailedMessage)
    /\ splashText' = EvalText(splash, splashText, FailedMessage)
    /\ pollPc' = "fail_sleep"
    /\ UNCHANGED <<splash_window, attempt, probes, sleeps, lastProbe, firstHealthy>>
    /\ UNCHANGED <<exitCode, childState, splash, mainWindow, uiLog>>
    /\ UNCHANGED mainVars

\* Variant: the timeout branch exits with status 0.
TimeoutExitCode_Zero == ExitOk

\* Exit status of the timeout branch (lib.rs:152).
TimeoutExitCode == ExitFailure

\* Variant: the timeout branch takes the handle and kills the child before
\* it exits.
OnTimeoutExit_KillsChild ==
    /\ Running /\ pollPc = "fail_sleep"
    /\ UNCHANGED keyVars
    /\ exitCode' = ExitFailure
    /\ pollPc' = "exited"
    /\ slot' = "None"
    /\ kills' = IF slot = "Some" THEN kills + 1 ELSE kills
    /\ childState' = IF slot = "Some" THEN "exited" ELSE childState
    /\ UNCHANGED <<splash_window, attempt, probes, sleeps, lastProbe, firstHealthy,
                   statusLog>>
    /\ UNCHANGED <<mainPc, setupError, slotWrites, spawns, spawnAttempts,
                   exitEvents, shutdownRequests, shutdown_succeeded, hResp,
                   hKills, hGrace, lastKill, killedState>>
    /\ UNCHANGED uiVars

\* lib.rs:151-152: sleep three seconds, then std::process::exit(1).
OnTimeoutExit ==
    /\ Running /\ pollPc = "fail_sleep"
    /\ UNCHANGED keyVars
    /\ exitCode' = TimeoutExitCode
    /\ pollPc' = "exited"
    /\ UNCHANGED <<splash_window, attempt, probes, sleeps, lastProbe, firstHealthy,
                   statusLog>>
    /\ UNCHANGED childState
    /\ UNCHANGED mainVars
    /\ UNCHANGED uiVars

----------------------------------------------------------------------------
(* event loop callback, lib.rs:160-203 *)

\* Variant: the event loop already runs while setup is in progress.
CanDeliverExit_DuringSetup == mainPc # "stopped"

\* May the event loop deliver ExitRequested to the callback now?  Only the
\* main thread runs the callback, and only once setup has returned.
CanDeliverExit == mainPc \in {"eventloop", "handler_returned"}

\* lib.rs:161-174: ExitRequested arrives; the handler sends the POST and
\* blocks on the response (at most two seconds).
ExitRequested ==
    /\ Running /\ CanDeliverExit
    /\ UNCHANGED keyVars
    /\ exitEvents < MaxExitEvents
    /\ exitEvents' = exitEvents + 1
    /\ shutdownRequests' = shutdownRequests + 1
    /\ shutdown_succeeded' = FALSE
    /\ hResp' = "pending"
    /\ hKills' = 0
    /\ hGrace' = 0
    /\ mainPc' = "h_request"
    /\ UNCHANGED <<exitCode, setupError, slot, slotWrites, spawns, spawnAttempts, childState,
                   kills, lastKill, killedState>>
    /\ UNCHANGED uiVars
    /\ UNCHANGED pollVars

\* Variant: the state is looked up under a type that is not managed.
FallbackTakes_StateAbsent(s) == FALSE

\* Does the fallback branch find a handle to kill (lib.rs:194-196)?
FallbackTakes(s) == TryStateIsSome /\ LockIsOk /\ s = "Some"

\* lib.rs:175-201: the response (or error) arrives.  On success the handler
\* goes on to the grace sleep; otherwise it takes the handle out of the slot
\* and kills the child, if the slot holds one, and returns.
HandleShutdownResponse(r) ==
    /\ Running /\ mainPc = "h_request"
    /\ UNCHANGED keyVars
    /\ hResp' = r
    /\ shutdown_succeeded' = ShutdownSucceeded(r)
    /\ IF HandlerBranch(ShutdownSucceeded(r)) = "grace"
       THEN /\ mainPc' = "h_grace"
            /\ UNCHANGED <<slot, kills, hKills, lastKill, killedState,
                           childState, exitCode>>
       ELSE IF FallbackTakes(slot)
       THEN \E kr \in KillResults :
            /\ slot' = SlotAfterTake(slot)
            /\ kills' = kills + 1
            /\ hKills' = hKills + 1
            /\ lastKill' = kr
            /\ killedState' = childState
            /\ childState' = "exited"
            /\ exitCode' = KillResultExit(kr)
            /\ mainPc' = IF KillResultExit(kr) = NotExited
                         THEN "handler_returned" ELSE "stopped"
       ELSE /\ mainPc' = "handler_returned"
            /\ UNCHANGED <<slot, kills, hKills, lastKill, killedState,
                           childState, exitCode>>
    /\ UNCHANGED <<setupError, slotWrites, spawns, spawnAttempts, exitEvents, shutdownRequests,
                   hGrace>>
    /\ UNCHANGED uiVars
    /\ UNCHANGED pollVars

ShutdownResponse == \E r \in HttpOutcomes : HandleShutdownResponse(r)

\* Variant: instead of a fixed sleep the handler waits for the child to exit.
GraceElapsed_WaitsForChild ==
    /\ Running /\ mainPc = "h_grace"
    /\ UNCHANGED keyVars
    /\ childState = "exited"
    /\ hGrace' = hGrace + 1
    /\ mainPc' = "handler_returned"
    /\ UNCHANGED <<exitCode, setupError, slot, slotWrites, spawns, spawnAttempts, childState,
                   exitEvents, shutdownRequests, shutdown_succeeded, hResp,
                   hKills, kills, lastKill, killedState>>
    /\ UNCHANGED uiVars
    /\ UNCHANGED pollVars

\* lib.rs:192-193: the 500 ms grace sleep ends and the handler returns.
GraceElapsed ==
    /\ Running /\ mainPc = "h_grace"
    /\ UNCHANGED keyVars
    /\ hGrace' = hGrace + 1
    /\ mainPc' = "handler_returned"
    /\ UNCHANGED <<exitCode, setupError, slot, slotWrites, spawns, spawnAttempts, childState,
                   exitEvents, shutdownRequests, shutdown_succeeded, hResp,
                   hKills, kills, lastKill, killedState>>
    /\ UNCHANGED uiVars
    /\ UNCHANGED pollVars

\* The handler did not prevent the exit: the event loop ends and the process
\* exits with status 0.
EventLoopExit ==
    /\ Running /\ mainPc = "handler_returned"
    /\ UNCHANGED keyVars
    /\ mainPc' = "stopped"
    /\ exitCode' = ExitOk
    /\ UNCHANGED <<setupError, slot, slotWrites, spawns, spawnAttempts, childState, exitEvents,
                   shutdownRequests, shutdown_succeeded, hResp, hKills, hGrace,
                   kills, lastKill, killedState>>
    /\ UNCHANGED uiVars
    /\ UNCHANGED pollVars

----------------------------------------------------------------------------
(* environment *)

\* The user closes the splash window.
UserClosesSplash ==
    /\ Running /\ splash = "open"
    /\ UNCHANGED keyVars
    /\ mainPc \in {"eventloop", "h_request", "h_grace", "handler_returned"}
    /\ splash' = "closed"
    /\ UNCHANGED <<exitCode, childState, splashText, mainWindow, uiLog>>
    /\ UNCHANGED mainVars
    /\ UNCHANGED pollVars

\* The backend process ends on its own (crash, or System.stop after an
\* acknowledged shutdown request).
ChildExits ==
    /\ Running /\ childState = "alive"
    /\ UNCHANGED keyVars
    /\ childState' = "exited"
    /\ UNCHANGED exitCode
    /\ UNCHANGED mainVars
    /\ UNCHANGED uiVars
    /\ UNCHANGED pollVars

----------------------------------------------------------------------------
(* keystroke tool, src/tauri/keystroke/src/main.rs *)

\* enum Action (main.rs:17-24).
Actions == {"Down", "Up", "Tap"}

\* The parts the model feeds to the tool.
KeyTokens == {"ctrl", "SHIFT", "Alt", "w", "S", "f1", "xy", ""}

\* str::to_uppercase on the tokens of the model.
to_uppercase ==
    ("ctrl" :> "CTRL") @@ ("SHIFT" :> "SHIFT") @@ ("Alt" :> "ALT") @@
    ("w" :> "W") @@ ("S" :> "S") @@ ("f1" :> "F1") @@ ("xy" :> "XY") @@
    ("" :> "")

\* s.chars().next() followed by to_ascii_lowercase, on the upper-cased tokens
\* that reach the last two match arms; "" has no first character.
first_char_lowercase ==
    ("W" :> "w") @@ ("S" :> "s") @@ ("XY" :> "x")

\* The modifier arms of the match (main.rs:77-80).
ModifierOf ==
    ("CTRL" :> "Control") @@ ("CONTROL" :> "Control") @@ ("SHIFT" :> "Shift") @@
    ("ALT" :> "Alt") @@ ("META" :> "Meta") @@ ("WIN" :> "Meta") @@
    ("SUPER" :> "Meta")

\* The named-key arms of the match (main.rs:83-125).
NamedKeyOf ==
    ("F1" :> "F1") @@ ("F2" :> "F2") @@ ("F3" :> "F3") @@ ("F4" :> "F4") @@
    ("F5" :> "F5") @@ ("F6" :> "F6") @@ ("F7" :> "F7") @@ ("F8" :> "F8") @@
    ("F9" :> "F9") @@ ("F10" :> "F10") @@ ("F11" :> "F11") @@ ("F12" :> "F12") @@
    ("SPACE" :> "Space") @@ ("ENTER" :> "Return") @@ ("RETURN" :> "Return") @@
    ("TAB" :> "Tab") @@ ("ESCAPE" :> "Escape") @@ ("ESC" :> "Escape") @@
    ("BACKSPACE" :> "Backspace") @@ ("DELETE" :> "Delete") @@ ("DEL" :> "Delete") @@
    ("INSERT" :> "Insert") @@ ("INS" :> "Insert") @@ ("HOME" :> "Home") @@
    ("END" :> "End") @@ ("PAGEUP" :> "PageUp") @@ ("PGUP" :> "PageUp") @@
    ("PAGEDOWN" :> "PageDown") @@ ("PGDN" :> "PageDown") @@
    ("UP" :> "UpArrow") @@ ("ARROWUP" :> "UpArrow") @@
    ("DOWN" :> "DownArrow") @@ ("ARROWDOWN" :> "DownArrow") @@
    ("LEFT" :> "LeftArrow") @@ ("ARROWLEFT" :> "LeftArrow") @@
    ("RIGHT" :> "RightArrow") @@ ("ARROWRIGHT" :> "RightArrow") @@
    ("NUMPAD0" :> "Numpad0") @@ ("NUMPAD1" :> "Numpad1") @@
    ("NUMPAD2" :> "Numpad2") @@ ("NUMPAD3" :> "Numpad3") @@
    ("NUMPAD4" :> "Numpad4") @@ ("NUMPAD5" :> "Numpad5") @@
    ("NUMPAD6" :> "Numpad6") @@ ("NUMPAD7" :> "Numpad7") @@
    ("NUMPAD8" :> "Numpad8") @@ ("NUMPAD9" :> "Numpad9")

\* Key::Unicode(c).
Unicode(c) == "Unicode:" \o c

\* One iteration of the loop of parse_key_parts (main.rs:73-141) on the
\* pair acc = <<modifiers, main_key>>.
parse_part(acc, part) ==
    LET upper == to_uppercase[part] IN
    IF upper \in DOMAIN ModifierOf
    THEN <<Append(acc[1], ModifierOf[upper]), acc[2]>>
    ELSE IF upper \in DOMAIN NamedKeyOf
    THEN <<acc[1], NamedKeyOf[upper]>>
    ELSE IF Len(upper) = 1
    THEN <<acc[1], Unicode(first_char_lowercase[upper])>>
    ELSE IF upper \in DOMAIN first_char_lowercase
    THEN <<acc[1], Unicode(first_char_lowercase[upper])>>
    ELSE acc

RECURSIVE parse_from(_, _, _)
parse_from(acc, ps, i) ==
    IF i > Len(ps) THEN acc ELSE parse_from(parse_part(acc, ps[i]), ps, i + 1)

\* parse_key_parts (main.rs:69-144): <<modifiers, main_key>>.
parse_key_parts(ps) == parse_from(<<<<>>, "None">>, ps, 1)

\* One call enigo.key(key, direction).
KeyCall(key, dir) == [key |-> key, dir |-> dir]

\* for modifier in &modifiers { enigo.key(*modifier, Press) }
PressInOrder(mods) ==
    [i \in 1..Len(mods) |-> KeyCall(mods[i], "Press")]

\* Variant: the modifiers are released in the order given.
ReleaseReversed_InOrder(mods) ==
    [i \in 1..Len(mods) |-> KeyCall(mods[i], "Release")]

\* for modifier in modifiers.iter().rev() { enigo.key(*modifier, Release) }
ReleaseReversed(mods) ==
    [i \in 1..Len(mods) |-> KeyCall(mods[Len(mods) + 1 - i], "Release")]

\* if let Some(key) = main_key { enigo.key(key, dir) }
MainKeyCall(key, dir) ==
    IF key = "None" THEN <<>> ELSE <<KeyCall(key, dir)>>

\* main.rs:27-33: parse the command line.  Its inputs were chosen by KeyInit.
KeyParse ==
    /\ keyPc = "start"
    /\ LET parsed == parse_key_parts(parts)
       IN  /\ modifiers' = parsed[1]
           /\ main_key' = parsed[2]
    /\ keyPc' = "parsed"
    /\ UNCHANGED <<action, parts, keyEvents>>
    /\ UNCHANGED <<exitCode, childState>>
    /\ UNCHANGED mainVars
    /\ UNCHANGED pollVars
    /\ UNCHANGED uiVars

\* main.rs:36-44: Action::Down.
KeyDown ==
    /\ keyPc = "parsed" /\ action = "Down"
    /\ keyEvents' = PressInOrder(modifiers) \o MainKeyCall(main_key, "Press")
    /\ keyPc' = "done"
    /\ UNCHANGED <<action, parts, modifiers, main_key>>
    /\ UNCHANGED <<exitCode, childState>>
    /\ UNCHANGED mainVars
    /\ UNCHANGED pollVars
    /\ UNCHANGED uiVars

\* main.rs:45-53: Action::Up.
KeyUp ==
    /\ keyPc = "parsed" /\ action = "Up"
    /\ keyEvents' = MainKeyCall(main_key, "Release") \o ReleaseReversed(modifiers)
    /\ keyPc' = "done"
    /\ UNCHANGED <<action, parts, modifiers, main_key>>
    /\ UNCHANGED <<exitCode, childState>>
    /\ UNCHANGED mainVars
    /\ UNCHANGED pollVars
    /\ UNCHANGED uiVars

\* main.rs:54-65: Action::Tap.
KeyTap ==
    /\ keyPc = "parsed" /\ action = "Tap"
    /\ keyEvents' = PressInOrder(modifiers) \o MainKeyCall(main_key, "Click")
                        \o ReleaseReversed(modifiers)
    /\ keyPc' = "done"
    /\ UNCHANGED <<action, parts, modifiers, main_key>>
    /\ UNCHANGED <<exitCode, childState>>
    /\ UNCHANGED mainVars
    /\ UNCHANGED pollVars
    /\ UNCHANGED uiVars

\* Sequences of 1..n tokens: str::split always yields at least one part.
RECURSIVE SeqsUpTo(_)
SeqsUpTo(n) ==
    IF n = 0 THEN {}
    ELSE SeqsUpTo(n - 1) \cup [1..n -> KeyTokens]

\* The tool starts on one of the bounded command lines.
KeyInit ==
    /\ ShellInit
    /\ keyPc = "start"
    /\ action \in Actions
    /\ parts \in SeqsUpTo(MaxParts)
    /\ modifiers = <<>>
    /\ main_key = "None"
    /\ keyEvents = <<>>

KeyNext ==
    \/ KeyParse
    \/ KeyDown
    \/ KeyUp
    \/ KeyTap

KeySpec == KeyInit /\ [][KeyNext]_vars

----------------------------------------------------------------------------
Next ==
    \/ SetupSplash
    \/ SetupSidecar
    \/ SetupSpawn
    \/ SetupStore
    \/ SetupThread
    \/ PollBegin
    \/ PollProbe
    \/ PollSleep
    \/ OnReady
    \/ OnTimeoutShowError
    \/ OnTimeoutExit
    \/ ExitRequested
    \/ ShutdownResponse
    \/ GraceElapsed
    \/ EventLoopExit
    \/ UserClosesSplash
    \/ ChildExits

Spec == Init /\ [][Next]_vars

\* The blocking calls of the handler are bounded: the POST has a two second
\* timeout and the grace sleep lasts 500 ms.
FairSpec == Spec /\ WF_vars(ShutdownResponse) /\ WF_vars(GraceElapsed)

TypeOK ==
    /\ mainPc \in {"setup_splash", "setup_sidecar", "setup_spawn", "setup_store",
                   "setup_thread", "eventloop", "h_request", "h_grace",
                   "handler_returned", "stopped"}
    /\ exitCode \in {NotExited, ExitOk, ExitFailure, ExitPanic}
    /\ slot \in {"None", "Some"}
    /\ childState \in {"none", "alive", "exited"}
    /\ splash \in {"none", "open", "closed"}
    /\ mainWindow \in {"none", "shown"}
    /\ pollPc \in {"idle", "spawned", "probe", "sleep", "returned_true",
                   "running", "panicked", "returned_false", "fail_sleep",
                   "exited"}
    /\ attempt \in 0..MAX_RETRIES
    /\ probes \in 0..MAX_RETRIES
    /\ sleeps \in 0..MAX_RETRIES
    /\ exitEvents \in 0..MaxExitEvents
    /\ kills \in 0..MaxExitEvents
    /\ firstHealthy \in 0..MAX_RETRIES

----------------------------------------------------------------------------
(* Derived notions *)

\* wait_for_backend has returned true / false.
ReturnedTrue == pollPc \in {"returned_true", "running", "panicked"}
ReturnedFalse == pollPc \in {"returned_false", "fail_sleep", "exited"}
Polling == pollPc \in {"spawned", "probe", "sleep"}

\* The exit-request handler is executing.
InHandler == mainPc \in {"h_request", "h_grace"}

\* The handler has returned, or the process has ended.
Terminated == ~Running \/ mainPc \in {"handler_returned", "stopped"}

\* The spec's ReadinessState.
ReadinessState ==
    IF firstHealthy # 0 THEN "Ready"
    ELSE IF ReturnedFalse THEN "Failed"
    ELSE IF pollPc \in {"probe", "sleep"} THEN "Probing"
    ELSE "Starting"

----------------------------------------------------------------------------
(* Properties *)

\* C1: if the N-th probe is the first to return Healthy, wait_for_backend
\* returns true after exactly N probes and N-1 sleeps, and no probe or sleep
\* follows the Healthy result.
C1_ReturnsTrueAtFirstHealthy ==
    firstHealthy # 0 =>
        /\ ReturnedTrue
        /\ lastProbe = "OkSuccess"
        /\ firstHealthy \in 1..MAX_RETRIES
        /\ probes = firstHealthy
        /\ sleeps = firstHealthy - 1

C1_Witness ==
    /\ ReturnedTrue
    /\ firstHealthy = 3
    /\ probes = 3
    /\ sleeps = 2

\* C2: if no probe returns Healthy, wait_for_backend returns false after
\* exactly MAX_RETRIES probes; the number of probes never exceeds MAX_RETRIES.
C2_ReturnsFalseAfterMaxProbes ==
    /\ probes <= MAX_RETRIES
    /\ ReturnedFalse => (firstHealthy = 0 /\ probes = MAX_RETRIES)
    /\ (firstHealthy = 0 /\ probes = MAX_RETRIES /\ sleeps = MAX_RETRIES)
           => ReturnedFalse

C2_Witness ==
    /\ pollPc = "returned_false"
    /\ probes = MAX_RETRIES
    /\ lastProbe \in {"OkNonSuccess", "ErrRefused", "ErrTimeout"}

\* C3: when the shutdown request is answered with a success status, the
\* handler does not call kill; it only makes the grace sleep and returns.
C3_AckedShutdownNeverKills ==
    (exitEvents > 0 /\ hResp = "OkSuccess") =>
        /\ shutdown_succeeded
        /\ hKills = 0
        /\ mainPc \in {"h_grace", "handler_returned", "stopped"}
        /\ hGrace = (IF mainPc = "h_grace" THEN 0 ELSE 1)

C3_Witness ==
    /\ mainPc = "handler_returned"
    /\ hResp = "OkSuccess"
    /\ hGrace = 1
    /\ kills = 0
    /\ slot = "Some"

\* C4: when the shutdown request gets no success response, the handler makes
\* no grace sleep and falls back to kill: once it has returned, kill has
\* been called exactly once.
C4_FailedShutdownKillsOnce ==
    (exitEvents > 0 /\ hResp \in {"OkNonSuccess", "ErrRefused", "ErrTimeout"}) =>
        /\ ~shutdown_succeeded
        /\ hGrace = 0
        /\ mainPc \in {"handler_returned", "stopped"}
        /\ kills = 1
        /\ slot = "None"

C4_Witness ==
    /\ mainPc = "handler_returned"
    /\ hResp = "ErrRefused"
    /\ hKills = 1
    /\ kills = 1
    /\ hGrace = 0

\* C5: once the exit-request handler has started, it always eventually
\* returns (or the process ends), whatever the response to the shutdown
\* request and whatever the slot holds.
C5_ShutdownTerminates == InHandler ~> Terminated

C5_Witness ==
    /\ mainPc = "handler_returned"
    /\ exitEvents = 2
    /\ hResp = "ErrTimeout"
    /\ hKills = 0
    /\ slot = "None"

\* C6 (as claimed): whenever the exit-request handler runs, the poll loop
\* has already returned.
C6_Original == InHandler => ~Polling

\* C6 (amended): the exit-request handler runs only after setup has returned,
\* that is after the handle was stored and the readiness thread was started;
\* the poll loop may still be running.
C6_HandlerOnlyAfterSetup ==
    exitEvents > 0 =>
        /\ pollPc # "idle"
        /\ slotWrites = 1
        /\ spawns = 1
        /\ setupError = "none"

C6_Witness ==
    /\ InHandler
    /\ pollPc = "sleep"
    /\ attempt = 2

\* C7: forced termination is idempotent: kill is called at most once over
\* the run, a later fallback finds the slot empty, and neither a second
\* fallback nor a kill of an exited child ends the process with an error.
C7_TerminateIdempotent ==
    /\ kills <= 1
    /\ kills = 1 => slot = "None"
    /\ exitEvents > 0 => exitCode # ExitPanic
    /\ (kills = 1 /\ hKills = 0 /\ hResp # "pending") => mainPc # "h_request"

C7_Witness ==
    /\ mainPc = "handler_returned"
    /\ exitEvents = 2
    /\ hResp = "ErrRefused"
    /\ hKills = 0
    /\ kills = 1
    /\ killedState = "exited"
    /\ lastKill = "Err"

\* C8 (as claimed): when the first Healthy probe is the N-th, N status
\* updates have been pushed to the splash window.
C8_Original ==
    (splash_window /\ firstHealthy # 0) => Len(statusLog) = firstHealthy

\* C8 (amended): when the first Healthy probe is the N-th and the splash
\* window was found when polling started, one status update was pushed per
\* failed attempt, N-1 in all ("Starting server..." for each attempt below
\* 10); the main window is shown and the splash closed only after that.
C8_UpdatesBeforeRunning ==
    /\ firstHealthy # 0 =>
          /\ Len(statusLog) = (IF splash_window THEN firstHealthy - 1 ELSE 0)
          /\ \A i \in 1..Len(statusLog) :
                 i < 10 => statusLog[i] = "Starting server..."
    /\ mainWindow = "shown" =>
          /\ firstHealthy # 0
          /\ pollPc = "running"
          /\ splash = "closed"

C8_Witness ==
    /\ pollPc = "running"
    /\ mainWindow = "shown"
    /\ splash = "closed"
    /\ firstHealthy = 3
    /\ statusLog = <<"Starting server...", "Starting server...">>

\* C9: the readiness state becomes Ready at most once, no probe is issued
\* once it is Ready or Failed, and every probe is issued with the attempt
\* counter one above the number of earlier probes.
C9_NoProbeAfterResolved ==
    [][ /\ (ReadinessState = "Ready" =>
               (ReadinessState' = "Ready" /\ firstHealthy' = firstHealthy))
        /\ (ReadinessState \in {"Ready", "Failed"} => probes' = probes)
        /\ (probes' # probes =>
               (probes' = probes + 1 /\ attempt = probes'
                /\ ReadinessState = "Probing"))
        /\ attempt' \in {attempt, attempt + 1} ]_vars

C9_Witness ==
    /\ ReadinessState = "Ready"
    /\ probes = 12
    /\ attempt = 12
    /\ mainWindow = "shown"

\* C10: when wait_for_backend returns false, the failure message is pushed
\* to the splash window (and displayed if the window is still open) before
\* the process exits, the exit status is 1, and the main window is never
\* created.
C10_TimeoutExitsWithFailure ==
    /\ ReturnedFalse => mainWindow = "none"
    /\ pollPc \in {"fail_sleep", "exited"} =>
          /\ Len(statusLog) > 0
          /\ statusLog[Len(statusLog)] = FailedMessage
          /\ splash = "open" => splashText = FailedMessage
    /\ pollPc = "exited" =>
          /\ exitCode = ExitFailure
          /\ firstHealthy = 0
          /\ probes = MAX_RETRIES
    /\ exitCode = ExitFailure => pollPc = "exited"

C10_Witness ==
    /\ pollPc = "exited"
    /\ exitCode = ExitFailure
    /\ splash = "open"
    /\ splashText = FailedMessage
    /\ mainWindow = "none"

\* C11: if creating or spawning the sidecar fails, setup ends the process
\* with a non-zero status at once: the step is not tried again, no handle is
\* stored, the readiness thread is not started, no probe is issued and the
\* main window is never created.
C11_SpawnFailureIsFatal ==
    setupError \in {"sidecar", "spawn"} =>
        /\ mainPc = "stopped"
        /\ exitCode \notin {NotExited, ExitOk}
        /\ spawnAttempts = (IF setupError = "spawn" THEN 1 ELSE 0)
        /\ spawns = 0
        /\ slot = "None"
        /\ slotWrites = 0
        /\ pollPc = "idle"
        /\ probes = 0
        /\ mainWindow = "none"

C11_Witness ==
    /\ setupError = "spawn"
    /\ spawnAttempts = 1
    /\ mainPc = "stopped"
    /\ exitCode = ExitPanic

\* C12 (as claimed): once an exit-request handler has returned, the slot no
\* longer holds a handle, whatever the shutdown outcome.
C12_Original == mainPc = "handler_returned" => slot = "None"

\* C12 (amended): the slot is written exactly once, by setup; the handler
\* takes the handle out only in its fallback branch: after a handler whose
\* shutdown request was not acknowledged the slot is empty, after an
\* acknowledged request the slot is left as it was.
C12_SlotWrittenOnceClearedByFallback ==
    /\ slotWrites <= 1
    /\ slot = "Some" => slotWrites = 1
    /\ (exitEvents > 0
        /\ hResp \in {"OkNonSuccess", "ErrRefused", "ErrTimeout"}) => slot = "None"
    /\ (exitEvents > 0 /\ hResp = "OkSuccess" /\ kills = 0) => slot = "Some"

C12_Witness ==
    /\ mainPc = "handler_returned"
    /\ hResp = "ErrTimeout"
    /\ hKills = 1
    /\ slot = "None"
    /\ slotWrites = 1

\* C13: spawn is called at most once, at most one handle is ever created and
\* stored, and once the slot has been emptied it never holds a handle again.
C13_SingleHandle ==
    /\ [](spawnAttempts <= 1 /\ spawns <= spawnAttempts /\ slotWrites <= spawns)
    /\ [][(slot = "None" /\ slotWrites > 0) => slot' = "None"]_vars

C13_Witness ==
    /\ slot = "None"
    /\ slotWrites = 1
    /\ spawnAttempts = 1
    /\ exitEvents = 2
    /\ mainPc = "handler_returned"

\* C14: the main window exists only after a probe returned Healthy, never
\* while polling and never after the poll failed; the ready branch builds the
\* main window, then closes the splash, then shows the main window.
C14_MainWindowOnlyAfterHealthy ==
    /\ mainWindow # "none" => firstHealthy # 0
    /\ (Polling \/ ReturnedFalse \/ pollPc = "idle") => mainWindow = "none"
    /\ uiLog = (IF pollPc = "running"
                THEN <<"create_splash", "create_main", "close_splash",
                       "show_main">>
                ELSE IF splash = "none" THEN <<>> ELSE <<"create_splash">>)

C14_Witness ==
    /\ pollPc = "running"
    /\ mainWindow = "shown"
    /\ Len(uiLog) = 4
    /\ firstHealthy = 2

\* C15: the result of the poll is a function of the probe outcomes alone:
\* the position of the loop, the number of probes and sleeps and the value
\* returned are fixed by how many probes were made and which one was first
\* Healthy, whether the splash window was found, was absent, or was closed so
\* that every status update failed.
C15_PollIndependentOfUi ==
    /\ pollPc = "probe" =>
          (firstHealthy = 0 /\ attempt = probes + 1 /\ sleeps = probes)
    /\ pollPc = "sleep" =>
          (firstHealthy = 0 /\ attempt = probes /\ sleeps = probes - 1)
    /\ ReturnedTrue <=> firstHealthy # 0
    /\ ReturnedTrue => (probes = firstHealthy /\ sleeps = probes - 1)
    /\ ReturnedFalse => (probes = MAX_RETRIES /\ sleeps = MAX_RETRIES)

C15_Witness ==
    /\ ReturnedTrue
    /\ firstHealthy = 3
    /\ splash_window
    /\ splash = "closed"
    /\ splashText = ""
    /\ Len(statusLog) = 2

\* C16: a probe that is not Healthy, whether a non-success response or a
\* failed request, never ends the loop or the process: it pushes the status
\* update (if the splash window was found) and goes to the sleep, and the
\* sleep is followed by the next attempt or, after the last attempt, by
\* returning false.
C16_FailedProbeAbsorbed ==
    [][ /\ (probes' # probes /\ lastProbe' # "OkSuccess") =>
               /\ pollPc' = "sleep"
               /\ exitCode' = exitCode
               /\ attempt' = attempt
               /\ sleeps' = sleeps
               /\ Len(statusLog') = Len(statusLog) + (IF splash_window THEN 1 ELSE 0)
        /\ (pollPc = "sleep" /\ pollPc' # "sleep") =>
               /\ sleeps' = sleeps + 1
               /\ statusLog' = statusLog
               /\ IF attempt < MAX_RETRIES
                  THEN pollPc' = "probe" /\ attempt' = attempt + 1
                  ELSE pollPc' = "returned_false" ]_vars

C16_Witness ==
    /\ pollPc = "probe"
    /\ attempt = 4
    /\ lastProbe = "ErrTimeout"
    /\ Len(statusLog) = 3

\* C17: the status text pushed for failed attempt a is "Starting server..."
\* for a < 10, "Running database migrations..." for 10 <= a < 30 and
\* "Almost ready..." from 30 on, so the texts pushed during a poll never go
\* back to an earlier phase.
C17_PhaseThresholds ==
    IF splash_window
    THEN \A i \in 1..Len(statusLog) :
            i <= MAX_RETRIES =>
                /\ i < 10 => statusLog[i] = "Starting server..."
                /\ (10 <= i /\ i < 30) =>
                       statusLog[i] = "Running database migrations..."
                /\ 30 <= i => statusLog[i] = "Almost ready..."
                /\ i <= probes
    ELSE \A i \in 1..Len(statusLog) : statusLog[i] = FailedMessage

C17_Witness ==
    /\ Len(statusLog) = 30
    /\ statusLog[9] = "Starting server..."
    /\ statusLog[10] = "Running database migrations..."
    /\ statusLog[29] = "Running database migrations..."
    /\ statusLog[30] = "Almost ready..."

\* C18 (as claimed): whenever the process has exited with status 1, no
\* shutdown request was sent, kill was not called and the slot still holds
\* the handle.
C18_Original ==
    exitCode = ExitFailure =>
        (shutdownRequests = 0 /\ kills = 0 /\ slot = "Some")

\* C18 (amended): the timeout branch itself sends no shutdown request, does
\* not call kill and does not touch the slot; so when the process exits with
\* status 1 and no exit-request was handled before, the slot still holds the
\* handle and the backend was neither asked to stop nor killed.
C18_TimeoutPathLeavesChild ==
    /\ []((exitCode = ExitFailure /\ exitEvents = 0) =>
             (shutdownRequests = 0 /\ kills = 0 /\ slot = "Some"
              /\ childState # "none"))
    /\ [][(pollPc \in {"returned_false", "fail_sleep"} /\ pollPc' # pollPc) =>
             UNCHANGED <<slot, kills, shutdownRequests, childState>>]_vars

C18_Witness ==
    /\ exitCode = ExitFailure
    /\ exitEvents = 0
    /\ slot = "Some"
    /\ childState = "alive"

\* C19: the handle is stored before the readiness thread is started and
\* before any exit-request is handled, so a handler that reaches its branch
\* before any kill finds the handle in the slot.
C19_HandleStoredBeforeUse ==
    /\ pollPc # "idle" => slotWrites = 1
    /\ exitEvents > 0 => slotWrites = 1
    /\ (mainPc = "h_request" /\ kills = 0) => slot = "Some"
    /\ (exitEvents > 0
        /\ hResp \in {"OkNonSuccess", "ErrRefused", "ErrTimeout"}) => kills >= 1

C19_Witness ==
    /\ exitEvents = 1
    /\ pollPc = "spawned"
    /\ mainPc = "handler_returned"
    /\ hResp = "ErrRefused"
    /\ hKills = 1

\* C20: Tap presses the modifiers in the order given, clicks the main key
\* and releases the modifiers in reverse order, so every press of a modifier
\* is matched by a release; Down only presses, modifiers before the main
\* key; Up only releases, the main key before the modifiers, the modifiers
\* in reverse order.
C20_KeyEventOrder ==
    keyPc = "done" =>
        LET n == Len(modifiers)
            m == IF main_key = "None" THEN 0 ELSE 1
            e == keyEvents
        IN  /\ action = "Tap" =>
                  /\ Len(e) = 2 * n + m
                  /\ \A i \in 1..n :
                        /\ e[i] = [key |-> modifiers[i], dir |-> "Press"]
                        /\ e[Len(e) + 1 - i] =
                               [key |-> modifiers[i], dir |-> "Release"]
                  /\ m = 1 => e[n + 1] = [key |-> main_key, dir |-> "Click"]
                  /\ \A k \in {"Control", "Shift", "Alt", "Meta"} :
                        Cardinality({i \in 1..Len(e) :
                                        e[i] = [key |-> k, dir |-> "Press"]})
                        = Cardinality({i \in 1..Len(e) :
                                        e[i] = [key |-> k, dir |-> "Release"]})
            /\ action = "Down" =>
                  /\ Len(e) = n + m
                  /\ \A i \in 1..n :
                        e[i] = [key |-> modifiers[i], dir |-> "Press"]
                  /\ m = 1 => e[n + 1] = [key |-> main_key, dir |-> "Press"]
            /\ action = "Up" =>
                  /\ Len(e) = n + m
                  /\ m = 1 => e[1] = [key |-> main_key, dir |-> "Release"]
                  /\ \A i \in 1..n :
                        e[m + i] =
                            [key |-> modifiers[n + 1 - i], dir |-> "Release"]

C20_Witness ==
    /\ keyPc = "done"
    /\ action = "Tap"
    /\ parts = <<"ctrl", "SHIFT", "S">>
    /\ keyEvents = << [key |-> "Control", dir |-> "Press"],
                      [key |-> "Shift", dir |-> "Press"],
                      [key |-> "Unicode:s", dir |-> "Click"],
                      [key |-> "Shift", dir |-> "Release"],
                      [key |-> "Control", dir |-> "Release"] >>

====
